---- MODULE Spec2Model ----
(***************************************************************************)
(* A model of stogo, the Go client library of the StooKV key-value store:  *)
(* the configuration object of package config (NewStooConfig, the With*    *)
(* setters and the accessors) and the client of package stogo              *)
(* (NewStoreClient, the five scoped operations and their default-scope     *)
(* wrappers).  The remote KVService is modelled as an in-memory double.    *)
(* Durations are counted in seconds.                                       *)
(***************************************************************************)
EXTENDS Integers, Sequences, FiniteSets, TLC

VARIABLES
    proc,      \* the process: "running", "fatal" (log.Fatal), "panic"
    cfg,       \* the *StooConfig the caller holds: Nil or Ref(record)
    ctor,      \* which constructor built cfg, and its arguments
    setup,     \* what NewStoreClient did: credentials chosen, CA file read, dial
    client,    \* the *StooClient: Nil or Ref([Config, conn])
    atNew,     \* a copy of the object cfg pointed to when NewStoreClient was called
    store,     \* the remote double: (namespace, profile, key) -> value
    written,   \* per triple: the value of the last successful Set not yet disturbed
    nOps,      \* client operations invoked (scoped and default-scope)
    nScoped,   \* scoped operations entered (directly or by delegation)
    nCalls,    \* requests the service stub has received
    lastCall,  \* the last client operation and the caller's arguments
    lastSent,  \* the requests the stub received during the last operation
    lastRet,   \* what the last operation returned
    nilTlsPassed, \* WithTls(nil) was called on a configuration holding TLS options
    calls      \* per caller: the operation it has in flight and that call's context

vars == <<proc, cfg, ctor, setup, client, atNew, store, written,
          nOps, nScoped, nCalls, lastCall, lastSent, lastRet,
          nilTlsPassed, calls>>

cfgVars == <<proc, cfg, ctor>>
connVars == <<setup, client, atNew>>
opVars == <<store, written, nOps, nScoped, nCalls, lastCall, lastSent, lastRet>>

(***************************************************************************)
(* Pointers: a nil pointer is the empty sequence, a valid one holds the    *)
(* object it points to.                                                    *)
(***************************************************************************)
Nil == <<>>
Ref(x) == <<x>>
Deref(p) == p[1]

\* Bound of the model: the number of client operations in one run.
MaxOps == 2

\* The inputs the callers draw from.
Endpoints == {"", "svc:50051"}
Timeouts == {-1, 0, 20}
Namespaces == {"", "app"}
Profiles == {"", "prod"}
Keys == {"db.user"}
\* The profiles the callers of the scoped operations use.
ScopedProfiles == {"prod"}
Values == {"root", "toor"}
CertFiles == {"ca.pem"}
TlsOptions ==
    { [SkipTlsVerification |-> TRUE, CaCertPath |-> "missing.pem",
       ServerNameOverride |-> "stookv.example.com"],
      [SkipTlsVerification |-> FALSE, CaCertPath |-> "ca.pem",
       ServerNameOverride |-> "stookv.example.com"],
      [SkipTlsVerification |-> FALSE, CaCertPath |-> "missing.pem",
       ServerNameOverride |-> "stookv.example.com"] }

(***************************************************************************)
(* package config                                                          *)
(***************************************************************************)
DefaultTimeout == 10

StooConfig(endpoint, readTimeout) ==
    [endpoint |-> endpoint, useTls |-> FALSE, readTimeout |-> readTimeout,
     defaultNamespace |-> "", defaultProfile |-> "", tls |-> Nil]

NewDefaultStooConfig == Ref(StooConfig("localhost:50051", 10))

NewStooConfig_KeepsZero(endpoint, timeout) ==
    IF endpoint # ""
    THEN [exit |-> "return", cfg |-> Ref(StooConfig(endpoint, timeout))]
    ELSE [exit |-> "fatal", cfg |-> Nil]

NewStooConfig_AcceptsEmptyEndpoint(endpoint, timeout) ==
    LET t == IF timeout = 0 THEN DefaultTimeout ELSE timeout
    IN  [exit |-> "return", cfg |-> Ref(StooConfig(endpoint, t))]

\* log.Fatal ends the process; the return after it is never reached.
NewStooConfig(endpoint, timeout) ==
    LET t == IF timeout = 0 THEN DefaultTimeout ELSE timeout
    IN  IF endpoint # ""
        THEN [exit |-> "return", cfg |-> Ref(StooConfig(endpoint, t))]
        ELSE [exit |-> "fatal", cfg |-> Nil]

\* The variant of the older config package: a zero timeout panics too.
NewStooConfigStrict(endpoint, timeout) ==
    IF endpoint # "" /\ timeout # 0
    THEN [exit |-> "return", cfg |-> Ref(StooConfig(endpoint, timeout))]
    ELSE [exit |-> "panic", cfg |-> Nil]

WithUseTls(s, useTls) == [s EXCEPT !.useTls = useTls]

WithDefaultNamespace(s, defaultNamespace) ==
    [s EXCEPT !.defaultNamespace = defaultNamespace]

WithDefaultProfile(s, defaultProfile) ==
    [s EXCEPT !.defaultProfile = defaultProfile]

WithTls_ClearsOnNil(s, tls) == [s EXCEPT !.tls = tls]

WithTls(s, tls) == IF tls # Nil THEN [s EXCEPT !.tls = tls] ELSE s

GetUseTls(s) == s.useTls
GetDefaultNamespace(s) == s.defaultNamespace
GetDefaultProfile(s) == s.defaultProfile
GetEndpoint(s) == s.endpoint
GetReadTimeout(s) == s.readTimeout
GetTls(s) == s.tls

(***************************************************************************)
(* google.golang.org/grpc as NewStoreClient uses it.  A CA file is usable  *)
(* when it is one of CertFiles; a dial may fail.                           *)
(***************************************************************************)
NoCreds == [kind |-> "none", ca |-> "", serverName |-> ""]
InsecureCreds == [kind |-> "insecure", ca |-> "", serverName |-> ""]
SkipVerifyCreds == [kind |-> "tls-skip-verify", ca |-> "", serverName |-> ""]

NewClientTLSFromFile(certFile, serverNameOverride) ==
    IF certFile \in CertFiles
    THEN [err |-> FALSE,
          creds |-> [kind |-> "tls-ca", ca |-> certFile,
                     serverName |-> serverNameOverride]]
    ELSE [err |-> TRUE, creds |-> NoCreds]

(***************************************************************************)
(* package stogo: construction                                             *)
(***************************************************************************)
ErrDefaultNamespaceAndProfileMustBeDefined ==
    "default namespace and profile must be set to use this method"
NoErr == "nil"

\* grpc.Dial, the fatal exit on its error, and the client built otherwise.
\* Config is the pointer it was given: the address of the caller's object.
DialAndBuild(s, creds, caRead, dialFails) ==
    IF dialFails
    THEN [exit |-> "fatal", creds |-> creds, caRead |-> caRead,
          dialed |-> TRUE, client |-> Nil]
    ELSE [exit |-> "return", creds |-> creds, caRead |-> caRead,
          dialed |-> TRUE,
          client |-> Ref([Config |-> "cfg",
                          conn |-> [target |-> GetEndpoint(s), creds |-> creds]])]

NewStoreClient_TlsOptionsFirst(c, dialFails) ==
    LET s == Deref(c)
    IN  IF GetTls(s) # Nil /\ Deref(GetTls(s)).SkipTlsVerification
        THEN DialAndBuild(s, SkipVerifyCreds, FALSE, dialFails)
        ELSE DialAndBuild(s, InsecureCreds, FALSE, dialFails)

NewStoreClient_IgnoresCertError(c, dialFails) ==
    LET s == Deref(c)
    IN  IF GetUseTls(s)
        THEN IF GetTls(s) = Nil
             THEN [exit |-> "panic", creds |-> NoCreds, caRead |-> FALSE,
                   dialed |-> FALSE, client |-> Nil]
             ELSE LET t == Deref(GetTls(s))
                  IN  IF ~t.SkipTlsVerification
                      THEN LET r == NewClientTLSFromFile(t.CaCertPath,
                                                         t.ServerNameOverride)
                           IN  DialAndBuild(s, r.creds, TRUE, dialFails)
                      ELSE DialAndBuild(s, SkipVerifyCreds, FALSE, dialFails)
        ELSE DialAndBuild(s, InsecureCreds, FALSE, dialFails)

\* cfg.GetTls() of a configuration without TLS options is a nil *TLS, and
\* reading its field is a nil-pointer dereference: the Go runtime panics.
NewStoreClient(c, dialFails) ==
    LET s == Deref(c)
    IN  IF GetUseTls(s)
        THEN IF GetTls(s) = Nil
             THEN [exit |-> "panic", creds |-> NoCreds, caRead |-> FALSE,
                   dialed |-> FALSE, client |-> Nil]
             ELSE LET t == Deref(GetTls(s))
                  IN  IF ~t.SkipTlsVerification
                      THEN LET r == NewClientTLSFromFile(t.CaCertPath,
                                                         t.ServerNameOverride)
                           IN  IF r.err
                               THEN [exit |-> "fatal", creds |-> NoCreds,
                                     caRead |-> TRUE, dialed |-> FALSE,
                                     client |-> Nil]
                               ELSE DialAndBuild(s, r.creds, TRUE, dialFails)
                      ELSE DialAndBuild(s, SkipVerifyCreds, FALSE, dialFails)
        ELSE DialAndBuild(s, InsecureCreds, FALSE, dialFails)

(***************************************************************************)
(* package proto and the remote service.  A request is the message and the *)
(* deadline of its context; the double keeps one value per (namespace,     *)
(* profile, key).  net is what the transport does with the call: "ok",     *)
(* "Unavailable" (never delivered) or "DeadlineExceeded" (served, but the  *)
(* reply came too late).  A context whose timeout is not positive has      *)
(* expired before anything is sent.                                        *)
(***************************************************************************)
NoArg == "<none>"
NoVal == "<absent>"
NilMap == [isNil |-> TRUE, kv |-> {}]
Nets == {"ok", "Unavailable", "DeadlineExceeded"}
Triples == Namespaces \X Profiles \X Keys

TripleOf(req) == <<req.Namespace, req.Profile, req.Key>>

Serve(req, st) ==
    CASE req.rpc = "GetService" ->
            IF st[TripleOf(req)] = NoVal
            THEN [res |-> Nil, err |-> "NotFound", store |-> st]
            ELSE [res |-> Ref([Data |-> st[TripleOf(req)]]), err |-> NoErr,
                  store |-> st]
      [] req.rpc \in {"SetKeyService", "SetSecretKeyService"} ->
            [res |-> Ref([Data |-> "OK"]), err |-> NoErr,
             store |-> [st EXCEPT ![TripleOf(req)] = req.Value]]
      [] req.rpc = "DeleteKeyService" ->
            [res |-> Ref([Data |-> "OK"]), err |-> NoErr,
             store |-> [st EXCEPT ![TripleOf(req)] = NoVal]]
      [] req.rpc = "GetServiceByNamespaceAndProfile" ->
            [res |-> Ref([Data |->
                        [isNil |-> FALSE,
                         kv |-> {<<k, st[<<req.Namespace, req.Profile, k>>]>> :
                                   k \in {x \in Keys :
                                     st[<<req.Namespace, req.Profile, x>>] # NoVal}}]]),
             err |-> NoErr, store |-> st]

\* One method of the generated KVServiceClient: (nil, err) on any error.
Invoke(req, st, net) ==
    IF req.timeout <= 0
    THEN [res |-> Nil, err |-> "DeadlineExceeded", store |-> st]
    ELSE IF net = "Unavailable"
    THEN [res |-> Nil, err |-> "Unavailable", store |-> st]
    ELSE LET r == Serve(req, st)
         IN  IF net = "DeadlineExceeded"
             THEN [res |-> Nil, err |-> "DeadlineExceeded", store |-> r.store]
             ELSE r

\* The generated getters accept a nil message.
GetData(res) == IF res = Nil THEN "" ELSE Deref(res).Data
GetDataMap(res) == IF res = Nil THEN NilMap ELSE Deref(res).Data

(***************************************************************************)
(* package stogo: the operations.  conf is the object c.Config points to   *)
(* at the time of the call, st the double's state.  A result holds what    *)
(* the method returns (data or all, err), the requests the stub received,  *)
(* the double's new state, and whether a scoped operation was entered.     *)
(***************************************************************************)
Get_RetriesOnError(conf, namespace, profile, key, st, net) ==
    LET req == [rpc |-> "GetService", timeout |-> GetReadTimeout(conf),
                Namespace |-> namespace, Profile |-> profile, Key |-> key,
                Value |-> NoArg]
        r == Invoke(req, st, net)
        again == Invoke(req, r.store, net)
    IN  IF r.err = NoErr
        THEN [data |-> GetData(r.res), all |-> NilMap, err |-> r.err,
              sent |-> <<req>>, store |-> r.store, scoped |-> 1]
        ELSE [data |-> GetData(again.res), all |-> NilMap, err |-> again.err,
              sent |-> <<req, req>>, store |-> again.store, scoped |-> 1]

Get(conf, namespace, profile, key, st, net) ==
    LET req == [rpc |-> "GetService", timeout |-> GetReadTimeout(conf),
                Namespace |-> namespace, Profile |-> profile, Key |-> key,
                Value |-> NoArg]
        r == Invoke(req, st, net)
    IN  [data |-> GetData(r.res), all |-> NilMap, err |-> r.err,
         sent |-> <<req>>, store |-> r.store, scoped |-> 1]

Set_SendsKeyAsValue(conf, namespace, profile, key, value, st, net) ==
    LET req == [rpc |-> "SetKeyService", timeout |-> GetReadTimeout(conf),
                Namespace |-> namespace, Profile |-> profile, Key |-> key,
                Value |-> key]
        r == Invoke(req, st, net)
    IN  [data |-> GetData(r.res), all |-> NilMap, err |-> r.err,
         sent |-> <<req>>, store |-> r.store, scoped |-> 1]

Set(conf, namespace, profile, key, value, st, net) ==
    LET req == [rpc |-> "SetKeyService", timeout |-> GetReadTimeout(conf),
                Namespace |-> namespace, Profile |-> profile, Key |-> key,
                Value |-> value]
        r == Invoke(req, st, net)
    IN  [data |-> GetData(r.res), all |-> NilMap, err |-> r.err,
         sent |-> <<req>>, store |-> r.store, scoped |-> 1]

SetSecret(conf, namespace, profile, key, value, st, net) ==
    LET req == [rpc |-> "SetSecretKeyService", timeout |-> GetReadTimeout(conf),
                Namespace |-> namespace, Profile |-> profile, Key |-> key,
                Value |-> value]
        r == Invoke(req, st, net)
    IN  [data |-> GetData(r.res), all |-> NilMap, err |-> r.err,
         sent |-> <<req>>, store |-> r.store, scoped |-> 1]

Delete_SwallowsError(conf, namespace, profile, key, st, net) ==
    LET req == [rpc |-> "DeleteKeyService", timeout |-> GetReadTimeout(conf),
                Namespace |-> namespace, Profile |-> profile, Key |-> key,
                Value |-> NoArg]
        r == Invoke(req, st, net)
    IN  [data |-> GetData(r.res), all |-> NilMap, err |-> NoErr,
         sent |-> <<req>>, store |-> r.store, scoped |-> 1]

Delete(conf, namespace, profile, key, st, net) ==
    LET req == [rpc |-> "DeleteKeyService", timeout |-> GetReadTimeout(conf),
                Namespace |-> namespace, Profile |-> profile, Key |-> key,
                Value |-> NoArg]
        r == Invoke(req, st, net)
    IN  [data |-> GetData(r.res), all |-> NilMap, err |-> r.err,
         sent |-> <<req>>, store |-> r.store, scoped |-> 1]

GetAllByNamespaceAndProfile(conf, namespace, profile, st, net) ==
    LET req == [rpc |-> "GetServiceByNamespaceAndProfile",
                timeout |-> GetReadTimeout(conf),
                Namespace |-> namespace, Profile |-> profile, Key |-> NoArg,
                Value |-> NoArg]
        r == Invoke(req, st, net)
    IN  [data |-> "", all |-> GetDataMap(r.res), err |-> r.err,
         sent |-> <<req>>, store |-> r.store, scoped |-> 1]

validateDefaultNamespaceAndProfile_Either(defaultNamespace, defaultProfile) ==
    IF defaultNamespace # "" \/ defaultProfile # ""
    THEN NoErr
    ELSE ErrDefaultNamespaceAndProfileMustBeDefined

validateDefaultNamespaceAndProfile(defaultNamespace, defaultProfile) ==
    IF defaultNamespace # "" /\ defaultProfile # ""
    THEN NoErr
    ELSE ErrDefaultNamespaceAndProfileMustBeDefined

\* What a default-scope operation returns when the validation fails.
ScopeError(err, st) ==
    [data |-> "", all |-> NilMap, err |-> err, sent |-> <<>>, store |-> st,
     scoped |-> 0]

GetDefault(conf, key, st, net) ==
    LET defaultNamespace == GetDefaultNamespace(conf)
        defaultProfile == GetDefaultProfile(conf)
        err == validateDefaultNamespaceAndProfile(defaultNamespace, defaultProfile)
    IN  IF err # NoErr
        THEN ScopeError(err, st)
        ELSE Get(conf, defaultNamespace, defaultProfile, key, st, net)

SetDefault(conf, key, value, st, net) ==
    LET defaultNamespace == GetDefaultNamespace(conf)
        defaultProfile == GetDefaultProfile(conf)
        err == validateDefaultNamespaceAndProfile(defaultNamespace, defaultProfile)
    IN  IF err # NoErr
        THEN ScopeError(err, st)
        ELSE Set(conf, defaultNamespace, defaultProfile, key, value, st, net)

SetSecretDefault_ViaSet(conf, key, value, st, net) ==
    LET defaultNamespace == GetDefaultNamespace(conf)
        defaultProfile == GetDefaultProfile(conf)
        err == validateDefaultNamespaceAndProfile(defaultNamespace, defaultProfile)
    IN  IF err # NoErr
        THEN ScopeError(err, st)
        ELSE Set(conf, defaultNamespace, defaultProfile, key, value, st, net)

SetSecretDefault(conf, key, value, st, net) ==
    LET defaultNamespace == GetDefaultNamespace(conf)
        defaultProfile == GetDefaultProfile(conf)
        err == validateDefaultNamespaceAndProfile(defaultNamespace, defaultProfile)
    IN  IF err # NoErr
        THEN ScopeError(err, st)
        ELSE SetSecret(conf, defaultNamespace, defaultProfile, key, value, st, net)

DeleteDefault(conf, key, st, net) ==
    LET defaultNamespace == GetDefaultNamespace(conf)
        defaultProfile == GetDefaultProfile(conf)
        err == validateDefaultNamespaceAndProfile(defaultNamespace, defaultProfile)
    IN  IF err # NoErr
        THEN ScopeError(err, st)
        ELSE Delete(conf, defaultNamespace, defaultProfile, key, st, net)

GetAllByDefaultNamespaceAndProfile(conf, st, net) ==
    LET defaultNamespace == GetDefaultNamespace(conf)
        defaultProfile == GetDefaultProfile(conf)
        err == validateDefaultNamespaceAndProfile(defaultNamespace, defaultProfile)
    IN  IF err # NoErr
        THEN ScopeError(err, st)
        ELSE GetAllByNamespaceAndProfile(conf, defaultNamespace, defaultProfile,
                                         st, net)

(***************************************************************************)
(* Calls in flight.  Every operation starts with                           *)
(*   ctx, cancel := context.WithTimeout(context.Background(), timeout)     *)
(*   defer cancel()                                                        *)
(* and then blocks in the stub until the reply arrives or ctx is done.     *)
(* A context is "live", "expired" (its deadline passed) or "cancelled";    *)
(* its parent, context.Background(), is never done.  What the service      *)
(* replies is left to net here.                                            *)
(***************************************************************************)
ScopedOps == {"Get", "Set", "SetSecret", "Delete", "GetAllByNamespaceAndProfile"}
DefaultOps == {"GetDefault", "SetDefault", "SetSecretDefault", "DeleteDefault",
               "GetAllByDefaultNamespaceAndProfile"}

\* Bound of the model: the callers that use the client concurrently.
NumCallers == 2
Callers == 1..NumCallers

NoContextCall == [op |-> "none", phase |-> "idle", ctx |-> "none", err |-> NoErr]

WithTimeout(timeout) == IF timeout <= 0 THEN "expired" ELSE "live"

cancel(ctx) == IF ctx = "live" THEN "cancelled" ELSE ctx

\* Caller i enters operation op: its context is created.
BeginCall(cs, i, op, timeout) ==
    [cs EXCEPT ![i] = [op |-> op, phase |-> "inflight",
                       ctx |-> WithTimeout(timeout), err |-> NoErr]]

\* The timer of caller i's context fires.
DeadlineElapsed(cs, i) == [cs EXCEPT ![i].ctx = "expired"]

ReturnCall_SharedCancel(cs, i, net) ==
    [j \in Callers |->
        IF j = i
        THEN [op |-> cs[i].op, phase |-> "returned", ctx |-> cancel(cs[i].ctx),
              err |-> IF cs[i].ctx = "expired" THEN "DeadlineExceeded"
                      ELSE IF net = "ok" THEN NoErr ELSE net]
        ELSE [cs[j] EXCEPT !.ctx = cancel(cs[j].ctx)]]

\* The stub call of caller i returns, the method returns and the deferred
\* cancel runs.  A call whose context expired ends in DeadlineExceeded.
ReturnCall(cs, i, net) ==
    [cs EXCEPT ![i] = [op |-> cs[i].op, phase |-> "returned",
                       ctx |-> cancel(cs[i].ctx),
                       err |-> IF cs[i].ctx = "expired" THEN "DeadlineExceeded"
                               ELSE IF net = "ok" THEN NoErr ELSE net]]

(***************************************************************************)
(* The state machine                                                       *)
(***************************************************************************)
NoCall == [op |-> "none", namespace |-> NoArg, profile |-> NoArg,
           key |-> NoArg, value |-> NoArg, net |-> "ok"]
NoRet == [data |-> "", all |-> NilMap, err |-> NoErr]

Init ==
    /\ proc = "running"
    /\ cfg = Nil
    /\ ctor = [name |-> "none", endpoint |-> "", timeout |-> 0]
    /\ setup = [called |-> FALSE, exit |-> "none", creds |-> NoCreds,
                caRead |-> FALSE, dialed |-> FALSE]
    /\ client = Nil
    /\ atNew = Nil
    /\ store = [t \in Triples |-> NoVal]
    /\ written = [t \in Triples |-> NoVal]
    /\ nOps = 0
    /\ nScoped = 0
    /\ nCalls = 0
    /\ lastCall = NoCall
    /\ lastSent = <<>>
    /\ lastRet = NoRet
    /\ nilTlsPassed = FALSE
    /\ calls = [i \in Callers |-> NoContextCall]

\* A constructor's exit: the process goes on, or ends in log.Fatal or a panic.
Construct(name, endpoint, timeout, r) ==
    /\ proc = "running"
    /\ ctor.name = "none"
    /\ ctor' = [name |-> name, endpoint |-> endpoint, timeout |-> timeout]
    /\ cfg' = r.cfg
    /\ proc' = IF r.exit = "return" THEN "running" ELSE r.exit
    /\ UNCHANGED <<connVars, opVars, nilTlsPassed, calls>>

CallNewDefaultStooConfig ==
    Construct("NewDefaultStooConfig", "", 0,
              [exit |-> "return", cfg |-> NewDefaultStooConfig])

CallNewStooConfig ==
    \E endpoint \in Endpoints, timeout \in Timeouts :
        Construct("NewStooConfig", endpoint, timeout,
                  NewStooConfig(endpoint, timeout))

CallNewStooConfigStrict ==
    \E endpoint \in Endpoints, timeout \in Timeouts :
        Construct("NewStooConfigStrict", endpoint, timeout,
                  NewStooConfigStrict(endpoint, timeout))

\* A setter works on the object in place and returns the same pointer.
Mutate(s) ==
    /\ proc = "running"
    /\ cfg # Nil
    /\ cfg' = Ref(s)
    /\ UNCHANGED <<proc, ctor, connVars, opVars, calls>>

CallWithUseTls ==
    \E useTls \in BOOLEAN :
        /\ Mutate(WithUseTls(Deref(cfg), useTls))
        /\ UNCHANGED nilTlsPassed

CallWithDefaultNamespace ==
    \E defaultNamespace \in Namespaces :
        /\ Mutate(WithDefaultNamespace(Deref(cfg), defaultNamespace))
        /\ UNCHANGED nilTlsPassed

CallWithDefaultProfile ==
    \E defaultProfile \in Profiles :
        /\ Mutate(WithDefaultProfile(Deref(cfg), defaultProfile))
        /\ UNCHANGED nilTlsPassed

CallWithTls ==
    \E tls \in {Nil} \cup {Ref(t) : t \in TlsOptions} :
        /\ Mutate(WithTls(Deref(cfg), tls))
        /\ nilTlsPassed' = (nilTlsPassed \/ (tls = Nil /\ GetTls(Deref(cfg)) # Nil))

CallNewStoreClient ==
    \E dialFails \in BOOLEAN :
        LET r == NewStoreClient(cfg, dialFails)
        IN  /\ proc = "running"
            /\ cfg # Nil
            /\ ~setup.called
            /\ setup' = [called |-> TRUE, exit |-> r.exit, creds |-> r.creds,
                         caRead |-> r.caRead, dialed |-> r.dialed]
            /\ client' = r.client
            /\ atNew' = cfg
            /\ proc' = IF r.exit = "return" THEN "running" ELSE r.exit
            /\ UNCHANGED <<cfg, ctor, opVars, nilTlsPassed, calls>>

\* The triples a request sequence writes to or deletes.
Disturbed(sent) ==
    {TripleOf(sent[i]) : i \in {j \in 1..Len(sent) :
        sent[j].rpc \in {"SetKeyService", "SetSecretKeyService",
                         "DeleteKeyService"}}}

\* A client operation, from the call to its return.
Operate(op, namespace, profile, key, value, net, r) ==
    /\ proc = "running"
    /\ client # Nil
    /\ nOps < MaxOps
    /\ nOps' = nOps + 1
    /\ nScoped' = nScoped + r.scoped
    /\ nCalls' = nCalls + Len(r.sent)
    /\ lastCall' = [op |-> op, namespace |-> namespace, profile |-> profile,
                    key |-> key, value |-> value, net |-> net]
    /\ lastSent' = r.sent
    /\ lastRet' = [data |-> r.data, all |-> r.all, err |-> r.err]
    /\ store' = r.store
    /\ written' = [t \in Triples |->
                     IF op = "Set" /\ r.err = NoErr /\ t = <<namespace, profile, key>>
                     THEN value
                     ELSE IF t \in Disturbed(r.sent) THEN NoVal ELSE written[t]]
    /\ UNCHANGED <<cfgVars, connVars, nilTlsPassed, calls>>

CallGet ==
    \E namespace \in Namespaces, profile \in ScopedProfiles, key \in Keys, net \in Nets :
        /\ cfg # Nil
        /\ Operate("Get", namespace, profile, key, NoArg, net,
                   Get(Deref(cfg), namespace, profile, key, store, net))

CallSet ==
    \E namespace \in Namespaces, profile \in ScopedProfiles, key \in Keys,
       value \in Values, net \in Nets :
        /\ cfg # Nil
        /\ Operate("Set", namespace, profile, key, value, net,
                   Set(Deref(cfg), namespace, profile, key, value, store, net))

CallSetSecret ==
    \E namespace \in Namespaces, profile \in ScopedProfiles, key \in Keys,
       value \in Values, net \in Nets :
        /\ cfg # Nil
        /\ Operate("SetSecret", namespace, profile, key, value, net,
                   SetSecret(Deref(cfg), namespace, profile, key, value, store, net))

CallDelete ==
    \E namespace \in Namespaces, profile \in ScopedProfiles, key \in Keys, net \in Nets :
        /\ cfg # Nil
        /\ Operate("Delete", namespace, profile, key, NoArg, net,
                   Delete(Deref(cfg), namespace, profile, key, store, net))

CallGetAllByNamespaceAndProfile ==
    \E namespace \in Namespaces, profile \in ScopedProfiles, net \in Nets :
        /\ cfg # Nil
        /\ Operate("GetAllByNamespaceAndProfile", namespace, profile, NoArg,
                   NoArg, net,
                   GetAllByNamespaceAndProfile(Deref(cfg), namespace, profile,
                                               store, net))

CallGetDefault ==
    \E key \in Keys, net \in Nets :
        /\ cfg # Nil
        /\ Operate("GetDefault", NoArg, NoArg, key, NoArg, net,
                   GetDefault(Deref(cfg), key, store, net))

CallSetDefault ==
    \E key \in Keys, value \in Values, net \in Nets :
        /\ cfg # Nil
        /\ Operate("SetDefault", NoArg, NoArg, key, value, net,
                   SetDefault(Deref(cfg), key, value, store, net))

CallSetSecretDefault ==
    \E key \in Keys, value \in Values, net \in Nets :
        /\ cfg # Nil
        /\ Operate("SetSecretDefault", NoArg, NoArg, key, value, net,
                   SetSecretDefault(Deref(cfg), key, value, store, net))

CallDeleteDefault ==
    \E key \in Keys, net \in Nets :
        /\ cfg # Nil
        /\ Operate("DeleteDefault", NoArg, NoArg, key, NoArg, net,
                   DeleteDefault(Deref(cfg), key, store, net))

CallGetAllByDefaultNamespaceAndProfile ==
    \E net \in Nets :
        /\ cfg # Nil
        /\ Operate("GetAllByDefaultNamespaceAndProfile", NoArg, NoArg, NoArg,
                   NoArg, net,
                   GetAllByDefaultNamespaceAndProfile(Deref(cfg), store, net))

\* Caller i calls a scoped operation and blocks in the stub.
StartCall ==
    \E i \in Callers, op \in ScopedOps :
        /\ proc = "running"
        /\ client # Nil
        /\ cfg # Nil
        /\ calls[i].phase # "inflight"
        /\ calls' = BeginCall(calls, i, op, GetReadTimeout(Deref(cfg)))
        /\ UNCHANGED <<cfgVars, connVars, opVars, nilTlsPassed>>

\* The deadline of one live context passes.
DeadlineElapses ==
    \E i \in Callers :
        /\ calls[i].phase = "inflight"
        /\ calls[i].ctx = "live"
        /\ calls' = DeadlineElapsed(calls, i)
        /\ UNCHANGED <<cfgVars, connVars, opVars, nilTlsPassed>>

\* One call in flight returns: with the reply or a transport error while
\* its context is live, with DeadlineExceeded once it has expired.
FinishCall ==
    \E i \in Callers, net \in {"ok", "Unavailable"} :
        /\ calls[i].phase = "inflight"
        /\ calls' = ReturnCall(calls, i, net)
        /\ UNCHANGED <<cfgVars, connVars, opVars, nilTlsPassed>>

NextCalls ==
    \/ CallNewDefaultStooConfig
    \/ CallNewStooConfig
    \/ CallNewStoreClient
    \/ StartCall
    \/ DeadlineElapses
    \/ FinishCall

NextConfig ==
    \/ CallNewDefaultStooConfig
    \/ CallNewStooConfig
    \/ CallNewStooConfigStrict
    \/ CallWithUseTls
    \/ CallWithDefaultNamespace
    \/ CallWithDefaultProfile
    \/ CallWithTls

NextConnect ==
    \/ CallNewDefaultStooConfig
    \/ CallNewStooConfig
    \/ CallWithUseTls
    \/ CallWithDefaultNamespace
    \/ CallWithDefaultProfile
    \/ CallWithTls
    \/ CallNewStoreClient

Next ==
    \/ CallNewDefaultStooConfig
    \/ CallNewStooConfig
    \/ CallWithDefaultNamespace
    \/ CallWithDefaultProfile
    \/ CallNewStoreClient
    \/ CallGet
    \/ CallSet
    \/ CallSetSecret
    \/ CallDelete
    \/ CallGetAllByNamespaceAndProfile
    \/ CallGetDefault
    \/ CallSetDefault
    \/ CallSetSecretDefault
    \/ CallDeleteDefault
    \/ CallGetAllByDefaultNamespaceAndProfile

\* The config package alone, both constructor variants.
SpecConfig == Init /\ [][NextConfig]_vars
\* Configuration and client construction.
SpecConnect == Init /\ [][NextConnect]_vars
\* Concurrent callers of one client: the calls in flight and their contexts.
SpecCalls == Init /\ [][NextCalls]_vars
\* The client and its operations.  The operations never read useTls or tls,
\* so the configuration here keeps the plaintext transport it starts with;
\* SpecConnect covers the TLS setters.
Spec == Init /\ [][Next]_vars

(***************************************************************************)
(* Properties                                                              *)
(***************************************************************************)

\* The remote operation each scoped operation is bound to.
RpcOf(op) ==
    CASE op = "Get" -> "GetService"
      [] op = "Set" -> "SetKeyService"
      [] op = "SetSecret" -> "SetSecretKeyService"
      [] op = "Delete" -> "DeleteKeyService"
      [] op = "GetAllByNamespaceAndProfile" -> "GetServiceByNamespaceAndProfile"

\* This step is one invocation of client operation op.
Invoked(op) == nOps' = nOps + 1 /\ lastCall'.op = op

\* This step ends as result r says: requests sent, values returned, store.
EndsAs(r) ==
    /\ lastSent' = r.sent
    /\ lastRet' = [data |-> r.data, all |-> r.all, err |-> r.err]
    /\ store' = r.store

DefaultsEmpty(s) == s.defaultNamespace = "" \/ s.defaultProfile = ""

\* C1: a default-scope operation called while defaultNamespace or
\* defaultProfile is empty returns ErrDefaultNamespaceAndProfileMustBeDefined
\* with the empty payload, and the stub receives no request during the call.
C1_ScopeErrorWithoutRemoteCall ==
    [][\A op \in DefaultOps :
         (Invoked(op) /\ cfg # Nil /\ DefaultsEmpty(Deref(cfg)))
         => /\ lastRet' = [data |-> "", all |-> NilMap,
                           err |-> ErrDefaultNamespaceAndProfileMustBeDefined]
            /\ lastSent' = <<>>
            /\ nCalls' = nCalls
            /\ store' = store]_vars

C1_Witness ==
    /\ lastCall.op = "SetSecretDefault"
    /\ cfg # Nil
    /\ Deref(cfg).defaultNamespace = "app"
    /\ Deref(cfg).defaultProfile = ""
    /\ lastRet.err = ErrDefaultNamespaceAndProfileMustBeDefined
    /\ nOps = 2
    /\ nCalls = 1

\* C2: with both defaults non-empty, a default-scope operation sends the
\* request and returns the result of its scoped operation called with
\* namespace = defaultNamespace and profile = defaultProfile and the same
\* key and value; SetSecretDefault sends the secret write, not the plain one.
C2_DefaultDelegatesToScoped ==
    [][(cfg # Nil /\ ~DefaultsEmpty(Deref(cfg))) =>
         LET conf == Deref(cfg)
             ns == conf.defaultNamespace
             pr == conf.defaultProfile
             key == lastCall'.key
             value == lastCall'.value
             net == lastCall'.net
         IN  /\ Invoked("GetDefault") => EndsAs(Get(conf, ns, pr, key, store, net))
             /\ Invoked("SetDefault") =>
                    EndsAs(Set(conf, ns, pr, key, value, store, net))
             /\ Invoked("SetSecretDefault") =>
                    /\ EndsAs(SetSecret(conf, ns, pr, key, value, store, net))
                    /\ Len(lastSent') = 1
                    /\ lastSent'[1].rpc = "SetSecretKeyService"
             /\ Invoked("DeleteDefault") =>
                    EndsAs(Delete(conf, ns, pr, key, store, net))
             /\ Invoked("GetAllByDefaultNamespaceAndProfile") =>
                    EndsAs(GetAllByNamespaceAndProfile(conf, ns, pr, store, net))
      ]_vars

C2_Witness ==
    /\ lastCall.op = "SetSecretDefault"
    /\ lastRet = [data |-> "OK", all |-> NilMap, err |-> NoErr]
    /\ lastSent = <<[rpc |-> "SetSecretKeyService", timeout |-> 20,
                     Namespace |-> "app", Profile |-> "prod",
                     Key |-> "db.user", Value |-> "root"]>>
    /\ store[<<"app", "prod", "db.user">>] = "root"

\* C3: every configuration a constructor returned has GetReadTimeout() > 0.
C3_ReadTimeoutPositive ==
    cfg # Nil => GetReadTimeout(Deref(cfg)) > 0

\* C4: every operation uses the timeout, defaultNamespace and defaultProfile
\* the configuration held when NewStoreClient was called, whatever With*
\* calls came later.
C4_ClientKeepsConstructionValues ==
    (lastCall.op # "none" /\ atNew # Nil) =>
        LET a == Deref(atNew)
        IN  /\ \A i \in 1..Len(lastSent) : lastSent[i].timeout = a.readTimeout
            /\ lastCall.op \in DefaultOps =>
                  IF DefaultsEmpty(a)
                  THEN /\ lastSent = <<>>
                       /\ lastRet.err = ErrDefaultNamespaceAndProfileMustBeDefined
                  ELSE /\ Len(lastSent) = 1
                       /\ lastSent[1].Namespace = a.defaultNamespace
                       /\ lastSent[1].Profile = a.defaultProfile

\* C5: the credentials NewStoreClient picks depend on useTls and
\* SkipTlsVerification alone: insecure ones whenever useTls is false,
\* whatever the TLS options say; TLS without verification when useTls and
\* SkipTlsVerification are true; TLS verified against the CA file otherwise.
\* The CA file is read in the last case only.
C5_TransportFromUseTlsAndSkip ==
    setup.called =>
        LET a == Deref(atNew)
        IN  /\ ~a.useTls => (setup.creds = InsecureCreds /\ ~setup.caRead)
            /\ (a.useTls /\ a.tls # Nil /\ Deref(a.tls).SkipTlsVerification)
                  => (setup.creds = SkipVerifyCreds /\ ~setup.caRead)
            /\ (a.useTls /\ a.tls # Nil /\ ~Deref(a.tls).SkipTlsVerification)
                  => /\ setup.caRead
                     /\ setup.creds.kind \in {"tls-ca", "none"}
                     /\ setup.creds.kind = "tls-ca" =>
                           /\ setup.creds.ca = Deref(a.tls).CaCertPath
                           /\ setup.creds.serverName =
                                 Deref(a.tls).ServerNameOverride
                     /\ setup.creds.kind = "none" => setup.exit = "fatal"
            /\ setup.caRead =>
                  (a.useTls /\ a.tls # Nil /\ ~Deref(a.tls).SkipTlsVerification)

C5_Witness ==
    /\ setup.called
    /\ ~Deref(atNew).useTls
    /\ Deref(atNew).tls # Nil
    /\ ~Deref(Deref(atNew).tls).SkipTlsVerification
    /\ Deref(Deref(atNew).tls).CaCertPath = "missing.pem"
    /\ setup.creds = InsecureCreds
    /\ client # Nil

\* C6: with useTls set, verification not skipped and a CaCertPath that is
\* no usable certificate, NewStoreClient ends the process before it dials:
\* no connection is opened and no client is returned.
C6_BadCaCertIsFatalBeforeDial ==
    (/\ setup.called
     /\ Deref(atNew).useTls
     /\ Deref(atNew).tls # Nil
     /\ ~Deref(Deref(atNew).tls).SkipTlsVerification
     /\ Deref(Deref(atNew).tls).CaCertPath \notin CertFiles)
    => /\ setup.exit = "fatal"
       /\ proc = "fatal"
       /\ ~setup.dialed
       /\ client = Nil

C6_Witness ==
    /\ setup.called
    /\ Deref(atNew).useTls
    /\ Deref(atNew).tls # Nil
    /\ ~Deref(Deref(atNew).tls).SkipTlsVerification
    /\ Deref(Deref(atNew).tls).CaCertPath = "missing.pem"
    /\ setup.caRead
    /\ proc = "fatal"

\* C7: every invocation of a scoped operation makes the stub receive exactly
\* one request, for the operation's own remote method and with the caller's
\* namespace, profile, key and value, whether the call succeeds or fails; so
\* the stub has received as many requests as scoped operations were entered.
C7_OneRequestPerScopedCall ==
    /\ nCalls = nScoped
    /\ lastCall.op \in ScopedOps =>
          /\ Len(lastSent) = 1
          /\ lastSent[1].rpc = RpcOf(lastCall.op)
          /\ lastSent[1].Namespace = lastCall.namespace
          /\ lastSent[1].Profile = lastCall.profile
          /\ lastSent[1].Key = lastCall.key
          /\ lastSent[1].Value = lastCall.value

C7_Witness ==
    /\ nOps = 2
    /\ nScoped = 2
    /\ nCalls = 2
    /\ lastCall.op = "Get"
    /\ lastRet.err = "Unavailable"

\* C8: when the remote call of a scoped operation fails, the operation
\* returns that error itself, with "" (point operations) or the nil map
\* (get-all) as payload.
C8_RemoteErrorReturnedAsIs ==
    [][\A op \in ScopedOps :
         (Invoked(op) /\ Len(lastSent') = 1) =>
            LET r == Invoke(lastSent'[1], store, lastCall'.net)
            IN  /\ lastRet'.err = r.err
                /\ r.err # NoErr => (lastRet'.data = "" /\ lastRet'.all = NilMap)
      ]_vars

C8_Witness ==
    /\ lastCall.op = "GetAllByNamespaceAndProfile"
    /\ lastCall.net = "DeadlineExceeded"
    /\ lastRet = [data |-> "", all |-> NilMap, err |-> "DeadlineExceeded"]
    /\ nCalls = 2

\* C9: against the double, Get(ns, profile, key) after a successful
\* Set(ns, profile, key, value), with no write or delete of that triple in
\* between and a working transport, returns value.
C9_SetThenGetRoundTrip ==
    (/\ lastCall.op = "Get"
     /\ lastCall.net = "ok"
     /\ written[<<lastCall.namespace, lastCall.profile, lastCall.key>>] # NoVal)
    => /\ lastRet.err = NoErr
       /\ lastRet.data =
             written[<<lastCall.namespace, lastCall.profile, lastCall.key>>]

C9_Witness ==
    /\ lastCall.op = "Get"
    /\ lastCall.namespace = ""
    /\ written[<<"", "prod", "db.user">>] = "toor"
    /\ lastRet = [data |-> "toor", all |-> NilMap, err |-> NoErr]

C11_EmptyEndpointIsFatal ==
    /\ (ctor.name = "NewStooConfig" /\ ctor.endpoint = "") =>
          (proc = "fatal" /\ cfg = Nil)
    /\ cfg # Nil => GetEndpoint(Deref(cfg)) # ""

C11_Witness ==
    /\ ctor = [name |-> "NewStooConfig", endpoint |-> "", timeout |-> 20]
    /\ proc = "fatal"
    /\ cfg = Nil

ConfigFields == {"endpoint", "useTls", "readTimeout", "defaultNamespace",
                 "defaultProfile", "tls"}

\* This step leaves the configuration object with field f holding v and
\* every other field as it was.
SetsOnly(f, v) ==
    /\ cfg' # Nil
    /\ Deref(cfg')[f] = v
    /\ \A g \in ConfigFields \ {f} : Deref(cfg')[g] = Deref(cfg)[g]

\* C12: each With* setter works on the object it was called on and writes
\* its argument to its own field only; endpoint, readTimeout and the other
\* fields stay.  WithTls(nil) changes nothing, so TLS options given before
\* remain.  Hence each field holds the last value passed to its setter
\* (for tls the last non-nil one).
C12_SettersWriteOwnFieldOnly ==
    [][/\ \A useTls \in BOOLEAN :
            Mutate(WithUseTls(Deref(cfg), useTls)) => SetsOnly("useTls", useTls)
       /\ \A defaultNamespace \in Namespaces :
            Mutate(WithDefaultNamespace(Deref(cfg), defaultNamespace))
            => SetsOnly("defaultNamespace", defaultNamespace)
       /\ \A defaultProfile \in Profiles :
            Mutate(WithDefaultProfile(Deref(cfg), defaultProfile))
            => SetsOnly("defaultProfile", defaultProfile)
       /\ \A t \in TlsOptions :
            Mutate(WithTls(Deref(cfg), Ref(t))) => SetsOnly("tls", Ref(t))
       /\ Mutate(WithTls(Deref(cfg), Nil)) => cfg' = cfg
      ]_vars

C12_Witness ==
    /\ nilTlsPassed
    /\ cfg # Nil
    /\ Deref(cfg).tls = Ref([SkipTlsVerification |-> FALSE,
                              CaCertPath |-> "ca.pem",
                              ServerNameOverride |-> "stookv.example.com"])
    /\ Deref(cfg).useTls
    /\ Deref(cfg).defaultNamespace = "app"
    /\ Deref(cfg).defaultProfile = "prod"
    /\ Deref(cfg).endpoint = "svc:50051"
    /\ Deref(cfg).readTimeout = 20

\* A call and its context agree: no context before the call starts, a live
\* or expired one while it is in flight, none live once it has returned;
\* and a call ends in DeadlineExceeded only when its own context expired.
ContextFollowsCall(c) ==
    /\ c.phase = "idle" => c.ctx = "none"
    /\ c.phase = "inflight" => c.ctx \in {"live", "expired"}
    /\ c.phase = "returned" => c.ctx \in {"cancelled", "expired"}
    /\ c.err = "DeadlineExceeded" => (c.phase = "returned" /\ c.ctx = "expired")

\* C13: every call in flight has a context of its own, created when the
\* call starts and released when it returns or its deadline passes; the
\* expiry or cancellation of one call's context changes nothing about any
\* other caller's call or context, and no context is live after its call
\* has returned.
C13_ContextsAreIndependent ==
    /\ [](\A i \in Callers : ContextFollowsCall(calls[i]))
    /\ [][\A i \in Callers :
            calls'[i] # calls[i] =>
                \A j \in Callers \ {i} : calls'[j] = calls[j]]_vars

C13_Witness ==
    /\ calls[1].phase = "returned"
    /\ calls[1].ctx = "expired"
    /\ calls[1].err = "DeadlineExceeded"
    /\ calls[2].phase = "inflight"
    /\ calls[2].ctx = "live"

\* C14: NewStoreClient reads the TLS options only when they are there: it
\* never dereferences a nil *TLS, and ends with a ready client or with one
\* of its two fatal setup errors (CA certificate not readable, dial failed).
C14_NoNilTlsDereference ==
    setup.called =>
        \/ setup.exit = "return" /\ client # Nil
        \/ setup.exit = "fatal" /\ client = Nil
             /\ (setup.dialed \/ setup.caRead)

====
